---- MODULE Spec2Model ----
(***************************************************************************)
(* unoserver: the supervisor (main, UnoServer.start, UnoServer.stop, the   *)
(* signal handler), the serving thread (UnoServer.serve with its two       *)
(* connect loops and the convert/compare RPC handlers), the per-request    *)
(* executor worker, the LibreOffice process and the RPC clients.           *)
(*                                                                         *)
(* The main thread is a call stack of frames: main() at the bottom, and    *)
(* on top of it the frames of stop() and of the Python signal handler,     *)
(* which runs in the main thread between two of its steps.                 *)
(***************************************************************************)
EXTENDS Integers, Sequences, FiniteSets, TLC

\* ---- bounds of the model ------------------------------------------------
MaxInfos == 2           \* info() calls served by one converter
MaxRequests == 2        \* RPC requests issued by clients
MaxSignals == 1         \* signals delivered to the supervisor
MaxStopAfter == 1       \* largest --stop-after value tried

\* ---- program constants --------------------------------------------------
None == -1              \* Python None for the optional integer arguments
ConnectAttempts == 20   \* attempts = 20
RefusedCost == 1        \* attempts -= 1
OtherCost == 4          \* attempts -= 4

Requests == 1..MaxRequests
\* --conversion-timeout values tried: not given, or some number of seconds
Timeouts == {None, 30}
Kinds == {"convert", "compare"}
\* one handler is registered for SIGTERM, SIGINT and (off Windows) SIGHUP; it
\* only passes signum on, so two of the three stand for all of them
Signals == {"SIGTERM", "SIGHUP"}

VARIABLES
    args,                 \* parsed command line (main)
    stack,                \* call stack of the main thread
    mainRet,              \* how main() ended
    spawned,              \* subprocesses spawned by this process
    handlers,             \* signal handlers registered
    libreoffice_process,  \* "None" | "running" | "exited"
    sent,                 \* send_signal/terminate calls on the Popen handle
    pending,              \* a signal has reached the running process
    intentional_exit,     \* UnoServer.intentional_exit
    xmlrcp_server,        \* UnoServer.xmlrcp_server is not None
    tpc,                  \* position of the serving thread (xmlrcp_thread)
    attempts,             \* attempts of the running connect loop
    listener,             \* listening socket of XMLRPCServer
    shutdown_request,     \* BaseServer.__shutdown_request
    is_shut_down,         \* BaseServer.__is_shut_down (Event)
    number_of_requests,   \* UnoServer.number_of_requests
    issued,               \* RPC calls made by clients so far
    backlog,              \* connections waiting in the listen queue, in arrival order
    cur,                  \* the call in the RPC handler
    future,               \* state of the handler's future
    executing,            \* calls whose engine operation is executing
    last,                 \* the response sent since the last dispatch
    answered,             \* number of responses sent
    signals,              \* number of signals delivered to the supervisor
    limitBy,              \* request whose stop_after() hit the limit
    died_logged,          \* "Looks like LibreOffice died" was logged
    connects,             \* connection attempts made by the running connect loop
    client,               \* a call of UnoClient.convert / UnoClient.compare
    conv,                 \* the UnoConverter instance and its call in progress
    comp,                 \* a call of UnoComparer.compare
    launch                \* the server's addresses and the command given to Popen

vars == <<args, stack, mainRet, spawned, handlers, signals, died_logged,
          libreoffice_process, sent, pending, intentional_exit, xmlrcp_server,
          shutdown_request, is_shut_down, tpc, attempts, listener,
          number_of_requests, limitBy, issued, backlog, cur, future, executing,
          last, answered, connects, client, conv, comp, launch>>

\* the client and the converter are followed in specifications of their own
toolVars == <<client, conv, comp>>
mainVars == <<args, stack, mainRet, spawned, handlers, signals, died_logged,
              toolVars, launch>>
engineVars == <<libreoffice_process, sent, pending>>
flagVars == <<intentional_exit, xmlrcp_server, shutdown_request, is_shut_down>>
serveVars == <<tpc, attempts, connects, listener, number_of_requests,
               limitBy>>
callVars == <<issued, backlog, cur, future, executing, last, answered>>

\* ---- the main thread's call stack ---------------------------------------
Frame(fn, pc, sig) == [fn |-> fn, pc |-> pc, sig |-> sig]
Running == stack # <<>>
Top == stack[Len(stack)]
At(fn, pc) == Running /\ Top.fn = fn /\ Top.pc = pc
Goto(pc) == [stack EXCEPT ![Len(stack)].pc = pc]
Call(ret, frame) == Append(Goto(ret), frame)
Return == SubSeq(stack, 1, Len(stack) - 1)

\* variant: the call is taken to reach the process whatever its state
Kill_Unchecked(by, sig) ==
    /\ sent' = sent \cup {[by |-> by, sig |-> sig]}
    /\ pending' = TRUE

\* Popen.send_signal / Popen.terminate: a call on the handle; it reaches the
\* process only while the process has not exited
Kill(by, sig) ==
    /\ sent' = sent \cup {[by |-> by, sig |-> sig]}
    /\ pending' = (pending \/ libreoffice_process = "running")

\* no call in the handler, no response sent yet
NoCall == [id |-> 0, kind |-> "none", elapsed |-> FALSE]
NoResponse == [id |-> 0, kind |-> "none", elapsed |-> FALSE, st |-> "none"]

\* the two connect loops of serve(), and the count of what a loop has tried
Loops == {"conv", "comp"}
NoTries == [refused |-> 0, other |-> 0, connected |-> 0]

\* no client call is being followed; no UnoConverter has been constructed
NoMessage == [a_path |-> "None", b_path |-> "None", outpath |-> "None",
              filtername |-> "None", infiltername |-> "None"]
NoClient ==
    [pc |-> "none", op |-> "none", server |-> "127.0.0.1", remote |-> FALSE,
     a_path |-> "None", a_data |-> "None", b_path |-> "None",
     b_data |-> "None", outpath |-> "None", filetype |-> "None",
     filtername |-> "None", infiltername |-> "None",
     retries |-> 0, infos |-> 0, calls |-> 0, api |-> "None",
     msg |-> NoMessage, wrote |-> FALSE, result |-> "none"]
\* the flags of the engine's command line
EngineFlags == {"--headless", "--invisible", "--nocrashreport", "--nodefault",
                "--nologo", "--nofirststartwizard", "--norestore"}

\* Popen has not been called
NoCommand == [executable |-> "none", flags |-> {},
              accept |-> [host |-> "none", port |-> "none"]]

\* the defaults of --interface, --port, --uno-interface and --uno-port
DefaultLaunch ==
    [interface |-> "127.0.0.1", port |-> "2003",
     uno_interface |-> "127.0.0.1", uno_port |-> "2002", cmd |-> NoCommand]

\* UnoComparer.compare has not been called: its parameters at their defaults
NoComparison ==
    [pc |-> "none", given |-> <<>>,
     inpath |-> "None", indata |-> "None", inOrgpath |-> "None",
     outpath |-> "None", convert_to |-> "None",
     calls |-> {}, result |-> "none"]
NoQueries == [imports |-> 0, exports |-> 0]
NoConverter ==
    [pc |-> "none", bridge |-> "down", imports |-> "None", exports |-> "None",
     queried |-> NoQueries, infos |-> 0, first |-> "none", last |-> "none",
     between |-> FALSE,
     inpath |-> "None", indata |-> "None", outpath |-> "None",
     convert_to |-> "None",
     calls |-> {}, result |-> "none", written |-> FALSE, docs |-> {}]

Boot ==
    /\ args \in [daemon : BOOLEAN, logfile : BOOLEAN, same_port : BOOLEAN,
                 conversion_timeout : Timeouts,
                 stop_after : {None} \cup (1..MaxStopAfter)]
    /\ stack = <<Frame("main", "parse", "none")>>
    /\ mainRet = "none"
    /\ spawned = 0
    /\ handlers = FALSE
    /\ libreoffice_process = "None"
    /\ sent = {}
    /\ pending = FALSE
    /\ intentional_exit = FALSE
    /\ xmlrcp_server = FALSE
    /\ tpc = "unstarted"
    /\ attempts = 0
    /\ listener = "closed"
    /\ shutdown_request = FALSE
    /\ is_shut_down = FALSE
    /\ number_of_requests = 0
    /\ issued = 0
    /\ backlog = <<>>
    /\ cur = NoCall
    /\ future = "none"
    /\ executing = {}
    /\ last = NoResponse
    /\ answered = 0
    /\ signals = 0
    /\ limitBy = 0
    /\ died_logged = FALSE
    /\ connects = [loop \in Loops |-> NoTries]
    /\ client = NoClient
    /\ conv = NoConverter
    /\ comp = NoComparison

\* unoserver started with the default addresses
Init == Boot /\ launch = DefaultLaunch

\* ---- main() -------------------------------------------------------------
\* --daemon / --logfile: re-run the command line as a child process and return
MainDaemonize ==
    /\ At("main", "parse")
    /\ args.daemon \/ args.logfile
    /\ spawned' = spawned + 1
    /\ mainRet' = IF args.daemon THEN "pid" ELSE "childrc"
    /\ stack' = Return
    /\ UNCHANGED <<launch, toolVars, args, handlers, signals, died_logged>>
    /\ UNCHANGED engineVars
    /\ UNCHANGED flagVars
    /\ UNCHANGED serveVars
    /\ UNCHANGED callVars

\* raise RuntimeError("--port and --uno-port must be different")
MainPortConflict ==
    /\ At("main", "parse")
    /\ ~(args.daemon \/ args.logfile)
    /\ args.same_port
    /\ mainRet' = "RuntimeError"
    /\ stack' = Return
    /\ UNCHANGED <<launch, toolVars, args, spawned, handlers, signals, died_logged>>
    /\ UNCHANGED engineVars
    /\ UNCHANGED flagVars
    /\ UNCHANGED serveVars
    /\ UNCHANGED callVars

\* variant: the engine is told to accept where the XML-RPC server listens
Command_FromInterface(l) ==
    [executable |-> "libreoffice",
     flags |-> EngineFlags,
     accept |-> [host |-> l.interface, port |-> l.uno_port]]

\* cmd of start(): the executable, the fixed flags, and --accept with the
\* connection string made of uno_interface and uno_port
Command(l) ==
    [executable |-> "libreoffice",
     flags |-> EngineFlags,
     accept |-> [host |-> l.uno_interface, port |-> l.uno_port]]

\* UnoServer.start(): Popen(cmd), Thread(None, self.serve), signal.signal(...)
StartSpawn ==
    /\ At("main", "parse")
    /\ ~(args.daemon \/ args.logfile)
    /\ ~args.same_port
    /\ libreoffice_process' = "running"
    /\ spawned' = spawned + 1
    /\ handlers' = TRUE
    /\ stack' = Goto("sleep5")
    /\ launch' = [launch EXCEPT !.cmd = Command(launch)]
    /\ UNCHANGED <<toolVars, args, mainRet, signals, died_logged>>
    /\ UNCHANGED <<sent, pending>>
    /\ UNCHANGED flagVars
    /\ UNCHANGED serveVars
    /\ UNCHANGED callVars

\* variant: the thread is started first, in place of Popen and the handlers
StartThread_Early ==
    /\ At("main", "parse")
    /\ ~(args.daemon \/ args.logfile)
    /\ ~args.same_port
    /\ tpc' = "bind"
    /\ stack' = Goto("sleep2")
    /\ UNCHANGED <<launch, toolVars, args, mainRet, spawned, handlers, signals, died_logged>>
    /\ UNCHANGED engineVars
    /\ UNCHANGED flagVars
    /\ UNCHANGED <<connects, attempts, listener, number_of_requests, limitBy>>
    /\ UNCHANGED callVars

\* time.sleep(5); self.xmlrcp_thread.start()
StartThread ==
    /\ At("main", "sleep5")
    /\ tpc' = "bind"
    /\ stack' = Goto("sleep2")
    /\ UNCHANGED <<launch, toolVars, args, mainRet, spawned, handlers, signals, died_logged>>
    /\ UNCHANGED engineVars
    /\ UNCHANGED flagVars
    /\ UNCHANGED <<connects, attempts, listener, number_of_requests, limitBy>>
    /\ UNCHANGED callVars

\* time.sleep(2); if not self.xmlrcp_thread.is_alive(): self.stop()
StartFailed ==
    /\ At("main", "sleep2")
    /\ tpc = "done"
    /\ stack' = Call("start_none", Frame("stop", "s_check", "none"))
    /\ UNCHANGED <<launch, toolVars, args, mainRet, spawned, handlers, signals, died_logged>>
    /\ UNCHANGED engineVars
    /\ UNCHANGED flagVars
    /\ UNCHANGED serveVars
    /\ UNCHANGED callVars

\* start() returns None; main: if process is None: return 2
StartReturnNone ==
    /\ At("main", "start_none")
    /\ mainRet' = "rc2"
    /\ stack' = Return
    /\ UNCHANGED <<launch, toolVars, args, spawned, handlers, signals, died_logged>>
    /\ UNCHANGED engineVars
    /\ UNCHANGED flagVars
    /\ UNCHANGED serveVars
    /\ UNCHANGED callVars

\* start() returns the process; main goes on to process.wait()
StartReturnProcess ==
    /\ At("main", "sleep2")
    /\ tpc # "done"
    /\ stack' = Goto("wait")
    /\ UNCHANGED <<launch, toolVars, args, mainRet, spawned, handlers, signals, died_logged>>
    /\ UNCHANGED engineVars
    /\ UNCHANGED flagVars
    /\ UNCHANGED serveVars
    /\ UNCHANGED callVars

\* variant: main() goes on to stop() without the message
MainWaitReturns_Silent ==
    /\ At("main", "wait")
    /\ libreoffice_process = "exited"
    /\ died_logged' = died_logged
    /\ stack' = Call("probe", Frame("stop", "s_check", "none"))
    /\ UNCHANGED <<launch, toolVars, args, mainRet, spawned, handlers, signals>>
    /\ UNCHANGED engineVars
    /\ UNCHANGED flagVars
    /\ UNCHANGED serveVars
    /\ UNCHANGED callVars

\* process.wait() returns; log unless intentional_exit; server.stop()
MainWaitReturns ==
    /\ At("main", "wait")
    /\ libreoffice_process = "exited"
    /\ died_logged' = ~intentional_exit
    /\ stack' = Call("probe", Frame("stop", "s_check", "none"))
    /\ UNCHANGED <<launch, toolVars, args, mainRet, spawned, handlers, signals>>
    /\ UNCHANGED engineVars
    /\ UNCHANGED flagVars
    /\ UNCHANGED serveVars
    /\ UNCHANGED callVars

\* os.kill(pid, 0) on the pid that process.wait() has reaped:
\*   ESRCH  no such process            -> return 0
\*   alive  the pid names a process    -> return 0 if intentional_exit else 1
\*   EPERM  any other errno            -> the OSError is re-raised
ExitCode(probe) ==
    CASE probe = "ESRCH" -> "rc0"
      [] probe = "alive" -> IF intentional_exit THEN "rc0" ELSE "rc1"
      [] OTHER -> "OSError"

MainProbe ==
    /\ At("main", "probe")
    /\ \E probe \in {"ESRCH", "alive", "EPERM"} : mainRet' = ExitCode(probe)
    /\ stack' = Return
    /\ UNCHANGED <<launch, toolVars, args, spawned, handlers, signals, died_logged>>
    /\ UNCHANGED engineVars
    /\ UNCHANGED flagVars
    /\ UNCHANGED serveVars
    /\ UNCHANGED callVars

\* ---- UnoServer.stop() ---------------------------------------------------
\* if self.xmlrcp_server is not None: shutdown() sets the request flag...
StopShutdown ==
    /\ At("stop", "s_check")
    /\ xmlrcp_server
    /\ shutdown_request' = TRUE
    /\ stack' = Goto("s_wait")
    /\ UNCHANGED <<launch, toolVars, args, mainRet, spawned, handlers, signals, died_logged>>
    /\ UNCHANGED engineVars
    /\ UNCHANGED <<intentional_exit, xmlrcp_server, is_shut_down>>
    /\ UNCHANGED serveVars
    /\ UNCHANGED callVars

\* ...and waits for serve_forever to leave its loop; then the dummy connection
StopShutdownDone ==
    /\ At("stop", "s_wait")
    /\ is_shut_down
    /\ stack' = Goto("s_join")
    /\ UNCHANGED <<launch, toolVars, args, mainRet, spawned, handlers, signals, died_logged>>
    /\ UNCHANGED engineVars
    /\ UNCHANGED flagVars
    /\ UNCHANGED serveVars
    /\ UNCHANGED callVars

\* self.xmlrcp_server is None: no shutdown()
StopNoServer ==
    /\ At("stop", "s_check")
    /\ ~xmlrcp_server
    /\ stack' = Goto("s_join")
    /\ UNCHANGED <<launch, toolVars, args, mainRet, spawned, handlers, signals, died_logged>>
    /\ UNCHANGED engineVars
    /\ UNCHANGED flagVars
    /\ UNCHANGED serveVars
    /\ UNCHANGED callVars

\* variant: stop() goes on without waiting for the thread
StopJoin_NoWait ==
    /\ At("stop", "s_join")
    /\ stack' = Goto("s_poll")
    /\ UNCHANGED <<launch, toolVars, args, mainRet, spawned, handlers, signals, died_logged>>
    /\ UNCHANGED engineVars
    /\ UNCHANGED flagVars
    /\ UNCHANGED serveVars
    /\ UNCHANGED callVars

\* self.xmlrcp_thread.join()
StopJoin ==
    /\ At("stop", "s_join")
    /\ tpc = "done"
    /\ stack' = Goto("s_poll")
    /\ UNCHANGED <<launch, toolVars, args, mainRet, spawned, handlers, signals, died_logged>>
    /\ UNCHANGED engineVars
    /\ UNCHANGED flagVars
    /\ UNCHANGED serveVars
    /\ UNCHANGED callVars

\* if self.libreoffice_process and self.libreoffice_process.poll() is not None:
\* terminate() and wait(10) on a process that has exited
StopTerminateExited ==
    /\ At("stop", "s_poll")
    /\ libreoffice_process = "exited"
    /\ Kill("stop", "SIGTERM")
    /\ stack' = Return
    /\ UNCHANGED <<launch, toolVars, args, mainRet, spawned, handlers, signals, died_logged>>
    /\ UNCHANGED <<libreoffice_process>>
    /\ UNCHANGED flagVars
    /\ UNCHANGED serveVars
    /\ UNCHANGED callVars

\* poll() is None: the process is running and stop() returns
StopSkipRunning ==
    /\ At("stop", "s_poll")
    /\ libreoffice_process # "exited"
    /\ stack' = Return
    /\ UNCHANGED <<launch, toolVars, args, mainRet, spawned, handlers, signals, died_logged>>
    /\ UNCHANGED engineVars
    /\ UNCHANGED flagVars
    /\ UNCHANGED serveVars
    /\ UNCHANGED callVars

\* ---- signal_handler(signum, frame) --------------------------------------
\* variant: the handler does not set the flag
signal_handler_NoMark(sig) ==
    /\ handlers
    /\ Running
    /\ signals < MaxSignals
    /\ signals' = signals + 1
    /\ stack' = Append(stack, Frame("handler", "h_relay", sig))
    /\ UNCHANGED <<launch, toolVars, args, mainRet, spawned, handlers, died_logged>>
    /\ UNCHANGED <<engineVars, flagVars, serveVars, callVars>>

\* a signal arrives: the handler's frame is pushed on the main thread and sets
\* self.intentional_exit = True
signal_handler(sig) ==
    /\ handlers
    /\ Running
    /\ signals < MaxSignals
    /\ signals' = signals + 1
    /\ intentional_exit' = TRUE
    /\ stack' = Append(stack, Frame("handler", "h_relay", sig))
    /\ UNCHANGED <<launch, toolVars, args, mainRet, spawned, handlers, died_logged>>
    /\ UNCHANGED <<xmlrcp_server, shutdown_request, is_shut_down>>
    /\ UNCHANGED <<engineVars, serveVars, callVars>>

\* variant: the handler goes on to stop() without relaying the signal
HandlerRelay_NoRelay ==
    /\ At("handler", "h_relay")
    /\ stack' = Goto("h_check")
    /\ UNCHANGED <<launch, toolVars, args, mainRet, spawned, handlers, signals, died_logged>>
    /\ UNCHANGED engineVars
    /\ UNCHANGED flagVars
    /\ UNCHANGED serveVars
    /\ UNCHANGED callVars

\* self.libreoffice_process.send_signal(signum)
HandlerRelay ==
    /\ At("handler", "h_relay")
    /\ Kill("handler", Top.sig)
    /\ stack' = Goto("h_check")
    /\ UNCHANGED <<launch, toolVars, args, mainRet, spawned, handlers, signals, died_logged>>
    /\ UNCHANGED <<libreoffice_process>>
    /\ UNCHANGED flagVars
    /\ UNCHANGED serveVars
    /\ UNCHANGED callVars

\* if self.xmlrcp_server is not None: self.stop()
HandlerStop ==
    /\ At("handler", "h_check")
    /\ xmlrcp_server
    /\ stack' = Call("h_ret", Frame("stop", "s_check", "none"))
    /\ UNCHANGED <<launch, toolVars, args, mainRet, spawned, handlers, signals, died_logged>>
    /\ UNCHANGED engineVars
    /\ UNCHANGED flagVars
    /\ UNCHANGED serveVars
    /\ UNCHANGED callVars

\* the handler returns and the interrupted frame resumes
HandlerReturn ==
    /\ \/ At("handler", "h_ret")
       \/ At("handler", "h_check") /\ ~xmlrcp_server
    /\ stack' = Return
    /\ UNCHANGED <<launch, toolVars, args, mainRet, spawned, handlers, signals, died_logged>>
    /\ UNCHANGED engineVars
    /\ UNCHANGED flagVars
    /\ UNCHANGED serveVars
    /\ UNCHANGED callVars

\* ---- LibreOffice --------------------------------------------------------
\* the process exits by itself (crash, or it was never able to start)
EngineDies ==
    /\ libreoffice_process = "running"
    /\ ~pending
    /\ libreoffice_process' = "exited"
    /\ UNCHANGED <<sent, pending>>
    /\ UNCHANGED <<mainVars, flagVars, serveVars, callVars>>

\* the process exits after a signal that reached it
EngineTerminated ==
    /\ libreoffice_process = "running"
    /\ pending
    /\ libreoffice_process' = "exited"
    /\ pending' = FALSE
    /\ UNCHANGED sent
    /\ UNCHANGED <<mainVars, flagVars, serveVars, callVars>>

\* ---- UnoServer.serve(): listener and connect loops ----------------------
\* with XMLRPCServer((self.interface, int(self.port)), ...) as server
ServeBind ==
    /\ tpc = "bind"
    /\ listener' = "open"
    /\ attempts' = ConnectAttempts
    /\ tpc' = "conv"
    /\ UNCHANGED <<connects, number_of_requests, limitBy>>
    /\ UNCHANGED <<mainVars, engineVars, flagVars, callVars>>

\* the constructor raises (address in use, no such interface): the thread ends
ServeBindFails ==
    /\ tpc = "bind"
    /\ tpc' = "done"
    /\ UNCHANGED <<connects, attempts, listener, number_of_requests, limitBy>>
    /\ UNCHANGED <<mainVars, engineVars, flagVars, callVars>>

NextLoop(loop) == IF loop = "conv" THEN "comp" ELSE "publish"

\* UnoConverter(...) / UnoComparer(...) connects: break. The second loop starts
\* with attempts = 20; after it the local variable is dead and is cleared
Connected(loop) ==
    /\ tpc = loop
    /\ attempts > 0
    /\ libreoffice_process = "running"
    /\ tpc' = NextLoop(loop)
    /\ attempts' = IF loop = "conv" THEN ConnectAttempts ELSE 0
    /\ UNCHANGED <<listener, number_of_requests, limitBy>>
    /\ UNCHANGED <<mainVars, engineVars, flagVars, callVars>>

\* variant: an error other than "Connection refused" costs one attempt
AfterFailure_SameCost(n, refused) == n - RefusedCost

\* attempts left after a failed connection attempt
AfterFailure(n, refused) == IF refused THEN n - RefusedCost ELSE n - OtherCost

\* UnoException: "Connection refused" in str(e), or a different error
ConnectFails(loop, refused) ==
    /\ tpc = loop
    /\ attempts > 0
    /\ attempts' = AfterFailure(attempts, refused)
    /\ UNCHANGED <<tpc, listener, number_of_requests, limitBy>>
    /\ UNCHANGED <<mainVars, engineVars, flagVars, callVars>>

\* variant: the loop gives up without terminate()
ConnectExhausted_NoTerminate(loop) ==
    /\ tpc = loop
    /\ attempts <= 0
    /\ listener' = "closed"
    /\ backlog' = <<>>
    /\ tpc' = "done"
    /\ attempts' = 0
    /\ UNCHANGED <<number_of_requests, limitBy, engineVars>>
    /\ UNCHANGED <<issued, cur, future, executing, last, answered>>
    /\ UNCHANGED <<mainVars, flagVars>>

\* while ... else: out of attempts; terminate() and return. Leaving the
\* with-block closes the listener and drops the calls still queued
ConnectExhausted(loop) ==
    /\ tpc = loop
    /\ attempts <= 0
    /\ Kill("exhausted", "SIGTERM")
    /\ listener' = "closed"
    /\ backlog' = <<>>
    /\ tpc' = "done"
    /\ attempts' = 0
    /\ UNCHANGED <<number_of_requests, limitBy, libreoffice_process>>
    /\ UNCHANGED <<issued, cur, future, executing, last, answered>>
    /\ UNCHANGED <<mainVars, flagVars>>

\* self.xmlrcp_server = server; self.number_of_requests = 0; register functions
ServePublish ==
    /\ tpc = "publish"
    /\ xmlrcp_server' = TRUE
    /\ number_of_requests' = 0
    /\ tpc' = "enter"
    /\ UNCHANGED <<connects, attempts, listener, limitBy>>
    /\ UNCHANGED <<intentional_exit, shutdown_request, is_shut_down>>
    /\ UNCHANGED <<mainVars, engineVars, callVars>>

\* ---- socketserver.BaseServer.serve_forever() ----------------------------
\* self.__is_shut_down.clear()
ServeForever ==
    /\ tpc = "enter"
    /\ is_shut_down' = FALSE
    /\ tpc' = "loop"
    /\ UNCHANGED <<connects, attempts, listener, number_of_requests, limitBy>>
    /\ UNCHANGED <<intentional_exit, xmlrcp_server, shutdown_request>>
    /\ UNCHANGED <<mainVars, engineVars, callVars>>

\* the loop sees __shutdown_request: finally-block, then server_close()
ServeExit ==
    /\ tpc = "loop"
    /\ shutdown_request
    /\ shutdown_request' = FALSE
    /\ is_shut_down' = TRUE
    /\ listener' = "closed"
    /\ backlog' = <<>>
    /\ tpc' = "done"
    /\ UNCHANGED <<connects, attempts, number_of_requests, limitBy>>
    /\ UNCHANGED <<issued, cur, future, executing, last, answered>>
    /\ UNCHANGED <<intentional_exit, xmlrcp_server>>
    /\ UNCHANGED <<mainVars, engineVars>>

\* ---- clients ------------------------------------------------------------
\* a client connects to the listening socket; connections are numbered in the
\* order in which they arrive, and the call a connection carries is read when
\* the dispatcher accepts it
ClientCall ==
    /\ issued < MaxRequests
    /\ listener = "open"
    /\ issued' = issued + 1
    /\ backlog' = Append(backlog, issued + 1)
    /\ UNCHANGED <<cur, future, executing, last, answered>>
    /\ UNCHANGED <<mainVars, engineVars, flagVars, serveVars>>

\* ---- the executor worker and the engine call ----------------------------
\* the future of the handler's call when the worker of call r ends
Done(r, outcome) == IF r = cur.id THEN outcome ELSE future

\* UnoConverter.convert returns its result. UnoComparer.compare never does:
\* the handler calls it with six positional arguments for five parameters
\* (see Bind), so compare's worker always raises
WorkerReturns(r) ==
    /\ r \in executing
    /\ r = cur.id => cur.kind = "convert"
    /\ libreoffice_process = "running"
    /\ executing' = executing \ {r}
    /\ future' = Done(r, "ok")
    /\ UNCHANGED <<issued, backlog, cur, last, answered>>
    /\ UNCHANGED <<mainVars, engineVars, flagVars, serveVars>>

\* it raises: invalid arguments, an error reported by the engine, a dead bridge
WorkerRaises(r) ==
    /\ r \in executing
    /\ executing' = executing \ {r}
    /\ future' = Done(r, "err")
    /\ UNCHANGED <<issued, backlog, cur, last, answered>>
    /\ UNCHANGED <<mainVars, engineVars, flagVars, serveVars>>

\* ---- RPC handlers of the serving thread ---------------------------------
\* the response of the handler reaches the caller and the loop goes on
Respond(st) ==
    /\ last' = [id |-> cur.id, kind |-> cur.kind, elapsed |-> cur.elapsed,
                st |-> st]
    /\ answered' = answered + 1
    /\ cur' = NoCall
    /\ future' = "none"
    /\ tpc' = "loop"

\* variant: the limit is taken as reached at or beyond stop_after
LimitHit_AtLeast ==
    args.stop_after # None /\ number_of_requests + 1 >= args.stop_after

\* stop_after(), called by a handler whose engine call succeeded
LimitHit == args.stop_after # None /\ number_of_requests + 1 = args.stop_after

stop_after ==
    /\ number_of_requests' =
          IF args.stop_after = None THEN number_of_requests
          ELSE number_of_requests + 1
    /\ intentional_exit' = (intentional_exit \/ LimitHit)
    /\ IF LimitHit THEN Kill("stop_after", "SIGTERM")
       ELSE UNCHANGED <<sent, pending>>
    /\ limitBy' = IF LimitHit THEN cur.id ELSE limitBy

\* variant: the connection that arrived last is served first
Dispatch_Newest(kind) ==
    /\ tpc = "loop"
    /\ ~shutdown_request
    /\ backlog # <<>>
    /\ cur' = [id |-> backlog[Len(backlog)], kind |-> kind, elapsed |-> FALSE]
    /\ backlog' = SubSeq(backlog, 1, Len(backlog) - 1)
    /\ executing' = executing \cup {backlog[Len(backlog)]}
    /\ future' = "pending"
    /\ tpc' = IF kind = "convert" THEN "c_result" ELSE "p_exit"
    /\ last' = NoResponse
    /\ UNCHANGED <<connects, attempts, listener, number_of_requests, limitBy>>
    /\ UNCHANGED <<issued, answered>>
    /\ UNCHANGED <<mainVars, engineVars, flagVars>>

\* serve_forever takes the next connection; the handler submits the engine
\* call to a new ThreadPoolExecutor
Dispatch(kind) ==
    /\ tpc = "loop"
    /\ ~shutdown_request
    /\ backlog # <<>>
    /\ cur' = [id |-> Head(backlog), kind |-> kind, elapsed |-> FALSE]
    /\ backlog' = Tail(backlog)
    /\ executing' = executing \cup {Head(backlog)}
    /\ future' = "pending"
    /\ tpc' = IF kind = "convert" THEN "c_result" ELSE "p_exit"
    /\ last' = NoResponse
    /\ UNCHANGED <<connects, attempts, listener, number_of_requests, limitBy>>
    /\ UNCHANGED <<issued, answered>>
    /\ UNCHANGED <<mainVars, engineVars, flagVars>>

\* convert: future.result(timeout=...) returns; else: stop_after()
ConvertResult ==
    /\ tpc = "c_result"
    /\ future = "ok"
    /\ stop_after
    /\ tpc' = "c_return"
    /\ UNCHANGED <<connects, attempts, listener, libreoffice_process>>
    /\ UNCHANGED <<xmlrcp_server, shutdown_request, is_shut_down>>
    /\ UNCHANGED <<mainVars, callVars>>

\* convert: return result
ConvertReturn ==
    /\ tpc = "c_return"
    /\ Respond("result")
    /\ UNCHANGED <<connects, attempts, listener, number_of_requests, limitBy>>
    /\ UNCHANGED <<issued, backlog, executing>>
    /\ UNCHANGED <<mainVars, engineVars, flagVars>>

\* variant: the request is counted on the fault path as well
ConvertFault_Counted ==
    /\ tpc = "c_result"
    /\ future = "err"
    /\ Respond("fault")
    /\ stop_after
    /\ UNCHANGED <<connects, attempts, listener, libreoffice_process>>
    /\ UNCHANGED <<xmlrcp_server, shutdown_request, is_shut_down>>
    /\ UNCHANGED <<issued, backlog, executing>>
    /\ UNCHANGED mainVars

\* convert: future.result re-raises the worker's exception
ConvertFault ==
    /\ tpc = "c_result"
    /\ future = "err"
    /\ Respond("fault")
    /\ UNCHANGED <<connects, attempts, listener, number_of_requests, limitBy>>
    /\ UNCHANGED <<issued, backlog, executing>>
    /\ UNCHANGED <<mainVars, engineVars, flagVars>>

\* variant: the timeout branch marks the exit as intentional
ConvertTimeout_Intentional ==
    /\ tpc = "c_result"
    /\ args.conversion_timeout # None
    /\ future = "pending"
    /\ cur' = [cur EXCEPT !.elapsed = TRUE]
    /\ Kill("timeout", "SIGTERM")
    /\ intentional_exit' = TRUE
    /\ tpc' = "c_raise"
    /\ UNCHANGED <<connects, attempts, listener, number_of_requests, limitBy>>
    /\ UNCHANGED <<issued, backlog, future, executing, last, answered>>
    /\ UNCHANGED <<libreoffice_process>>
    /\ UNCHANGED <<xmlrcp_server, shutdown_request, is_shut_down>>
    /\ UNCHANGED mainVars

\* variant: the wait for the result ends although no timeout is configured
ConvertTimeout_Unconfigured ==
    /\ tpc = "c_result"
    /\ future = "pending"
    /\ cur' = [cur EXCEPT !.elapsed = TRUE]
    /\ Kill("timeout", "SIGTERM")
    /\ tpc' = "c_raise"
    /\ UNCHANGED <<connects, attempts, listener, number_of_requests, limitBy>>
    /\ UNCHANGED <<issued, backlog, future, executing, last, answered>>
    /\ UNCHANGED <<libreoffice_process>>
    /\ UNCHANGED <<mainVars, flagVars>>

\* variant: the timeout branch raises without terminating the process
ConvertTimeout_NoTerminate ==
    /\ tpc = "c_result"
    /\ args.conversion_timeout # None
    /\ future = "pending"
    /\ cur' = [cur EXCEPT !.elapsed = TRUE]
    /\ tpc' = "c_raise"
    /\ UNCHANGED <<connects, attempts, listener, number_of_requests, limitBy>>
    /\ UNCHANGED <<issued, backlog, future, executing, last, answered>>
    /\ UNCHANGED <<mainVars, engineVars, flagVars>>

\* convert: futures.TimeoutError while the worker runs: dispose, terminate
ConvertTimeout ==
    /\ tpc = "c_result"
    /\ args.conversion_timeout # None
    /\ future = "pending"
    /\ cur' = [cur EXCEPT !.elapsed = TRUE]
    /\ Kill("timeout", "SIGTERM")
    /\ tpc' = "c_raise"
    /\ UNCHANGED <<connects, attempts, listener, number_of_requests, limitBy>>
    /\ UNCHANGED <<issued, backlog, future, executing, last, answered>>
    /\ UNCHANGED <<libreoffice_process>>
    /\ UNCHANGED <<mainVars, flagVars>>

\* variant: the executor is left without joining its worker
ConvertTimeoutFault_NoJoin ==
    /\ tpc = "c_raise"
    /\ Respond("timeout")
    /\ UNCHANGED <<connects, attempts, listener, number_of_requests, limitBy>>
    /\ UNCHANGED <<issued, backlog, executing>>
    /\ UNCHANGED <<mainVars, engineVars, flagVars>>

\* convert: raise; leaving the with-block joins the worker (shutdown(wait=True))
ConvertTimeoutFault ==
    /\ tpc = "c_raise"
    /\ future # "pending"
    /\ Respond("timeout")
    /\ UNCHANGED <<connects, attempts, listener, number_of_requests, limitBy>>
    /\ UNCHANGED <<issued, backlog, executing>>
    /\ UNCHANGED <<mainVars, engineVars, flagVars>>

\* compare: the with-block ends before future.result and joins the worker
CompareJoin ==
    /\ tpc = "p_exit"
    /\ future # "pending"
    /\ tpc' = "p_result"
    /\ UNCHANGED <<connects, attempts, listener, number_of_requests, limitBy>>
    /\ UNCHANGED <<mainVars, engineVars, flagVars, callVars>>

\* the configured timeout passes while compare's worker is still running
CompareDeadline ==
    /\ tpc = "p_exit"
    /\ args.conversion_timeout # None
    /\ future = "pending"
    /\ ~cur.elapsed
    /\ cur' = [cur EXCEPT !.elapsed = TRUE]
    /\ UNCHANGED <<issued, backlog, future, executing, last, answered>>
    /\ UNCHANGED <<mainVars, engineVars, flagVars, serveVars>>

\* compare: future.result re-raises the worker's exception; the else branch
\* with stop_after() and 'return result' is never reached
CompareFault ==
    /\ tpc = "p_result"
    /\ future = "err"
    /\ Respond("fault")
    /\ UNCHANGED <<connects, attempts, listener, number_of_requests, limitBy>>
    /\ UNCHANGED <<issued, backlog, executing>>
    /\ UNCHANGED <<mainVars, engineVars, flagVars>>

\* ---- the system ---------------------------------------------------------
Next ==
    \/ MainDaemonize
    \/ MainPortConflict
    \/ StartSpawn
    \/ StartThread
    \/ StartFailed
    \/ StartReturnNone
    \/ StartReturnProcess
    \/ MainWaitReturns
    \/ MainProbe
    \/ StopShutdown
    \/ StopShutdownDone
    \/ StopNoServer
    \/ StopJoin
    \/ StopTerminateExited
    \/ StopSkipRunning
    \/ \E sig \in Signals : signal_handler(sig)
    \/ HandlerRelay
    \/ HandlerStop
    \/ HandlerReturn
    \/ EngineDies
    \/ EngineTerminated
    \/ ServeBind
    \/ ServeBindFails
    \/ \E loop \in {"conv", "comp"} : Connected(loop) /\ UNCHANGED connects
    \/ \E loop \in {"conv", "comp"}, refused \in BOOLEAN :
          ConnectFails(loop, refused) /\ UNCHANGED connects
    \/ \E loop \in {"conv", "comp"} :
          ConnectExhausted(loop) /\ UNCHANGED connects
    \/ ServePublish
    \/ ServeForever
    \/ ServeExit
    \/ ClientCall
    \/ \E r \in Requests : WorkerReturns(r)
    \/ \E r \in Requests : WorkerRaises(r)
    \/ \E kind \in Kinds : Dispatch(kind)
    \/ ConvertResult
    \/ ConvertReturn
    \/ ConvertFault
    \/ ConvertTimeout
    \/ ConvertTimeoutFault
    \/ CompareJoin
    \/ CompareDeadline
    \/ CompareFault

Spec == Init /\ [][Next]_vars

\* ---- scheduling ---------------------------------------------------------
\* a step of the main thread: main(), start(), stop() or a handler that has
\* been entered (the delivery of a signal is not the program's step)
MainStep ==
    \/ MainDaemonize
    \/ MainPortConflict
    \/ StartSpawn
    \/ StartThread
    \/ StartFailed
    \/ StartReturnNone
    \/ StartReturnProcess
    \/ MainWaitReturns
    \/ MainProbe
    \/ StopShutdown
    \/ StopShutdownDone
    \/ StopNoServer
    \/ StopJoin
    \/ StopTerminateExited
    \/ StopSkipRunning
    \/ HandlerRelay
    \/ HandlerStop
    \/ HandlerReturn

\* a step of the serving thread
ServeStep ==
    \/ ServeBind
    \/ ServeBindFails
    \/ \E loop \in {"conv", "comp"} : Connected(loop) /\ UNCHANGED connects
    \/ \E loop \in {"conv", "comp"}, refused \in BOOLEAN :
          ConnectFails(loop, refused) /\ UNCHANGED connects
    \/ \E loop \in {"conv", "comp"} :
          ConnectExhausted(loop) /\ UNCHANGED connects
    \/ ServePublish
    \/ ServeForever
    \/ ServeExit
    \/ \E kind \in Kinds : Dispatch(kind)
    \/ ConvertResult
    \/ ConvertReturn
    \/ ConvertFault
    \/ ConvertTimeout
    \/ ConvertTimeoutFault
    \/ CompareJoin
    \/ CompareDeadline
    \/ CompareFault

\* a step of an executor worker: its engine call ends
WorkerStep == \E r \in Requests : WorkerReturns(r) \/ WorkerRaises(r)

\* every thread that can take a step eventually takes one, and a LibreOffice
\* process that a signal has reached exits
FairSpec ==
    /\ Spec
    /\ WF_vars(MainStep)
    /\ WF_vars(ServeStep)
    /\ WF_vars(WorkerStep)
    /\ WF_vars(EngineTerminated)

TypeOK ==
    /\ mainRet \in {"none", "pid", "childrc", "RuntimeError", "OSError",
                    "rc0", "rc1", "rc2"}
    /\ libreoffice_process \in {"None", "running", "exited"}
    /\ tpc \in {"unstarted", "bind", "conv", "comp", "publish", "enter", "loop",
                "c_result", "c_return", "c_raise", "p_exit", "p_result",
                "done"}
    /\ attempts \in (1 - OtherCost)..ConnectAttempts
    /\ future \in {"none", "pending", "ok", "err"}
    /\ executing \subseteq Requests
    /\ issued \in 0..MaxRequests
    /\ answered \in 0..issued
    /\ signals \in 0..MaxSignals

\* ---- properties ---------------------------------------------------------
TimeoutKill == [by |-> "timeout", sig |-> "SIGTERM"]
LimitKill == [by |-> "stop_after", sig |-> "SIGTERM"]
StopKill == [by |-> "stop", sig |-> "SIGTERM"]

\* C1: at most one engine operation (convert or compare) is executing at any
\* time, also after a timeout has fired on an earlier request.
SingleFlight == Cardinality(executing) <= 1

\* a call executes after the timeout of an earlier call has fired
SingleFlightWitness ==
    TimeoutKill \in sent /\ cur.id > 1 /\ ~cur.elapsed /\ executing = {cur.id}

\* C2: when the configured timeout passes while convert's engine call is
\* running, terminate() is called on the engine process and the caller gets
\* the timeout fault, never a result.
ConvertTimeoutFaults ==
    /\ (cur.kind = "convert" /\ cur.elapsed) => TimeoutKill \in sent
    /\ (last.kind = "convert" /\ last.elapsed) =>
          (TimeoutKill \in sent /\ last.st = "timeout")

\* a convert whose timeout passed has been answered with the timeout fault
ConvertTimeoutWitness ==
    last.kind = "convert" /\ last.elapsed /\ last.st = "timeout"

\* C3: when the configured timeout passes while compare's engine call is
\* running, the caller gets the timeout fault and the engine is terminated.
CompareTimeoutFaults ==
    (last.kind = "compare" /\ last.elapsed) =>
        (TimeoutKill \in sent /\ last.st = "timeout")

\* C4: when the engine process has ended and intentional_exit is false,
\* main() returns a non-zero exit code.
UnintentionalExitNonZero ==
    (mainRet \in {"rc0", "rc1", "rc2"} /\ libreoffice_process = "exited"
        /\ ~intentional_exit) => mainRet # "rc0"

StopTerminatesEngine ==
    [][(At("stop", "s_poll") /\ Len(stack') < Len(stack)
          /\ libreoffice_process = "running") => StopKill \in sent']_vars

\* C7: once the request counter has reached stop_after, no further convert or
\* compare is executed against the engine.
RequestLimit == limitBy # 0 => executing = {}

\* C8: the engine is terminated for the request limit only after the response
\* of the triggering request has been returned to its caller (calls are
\* answered in the order of their numbers).
LimitShutdownAfterResponse ==
    LimitKill \in sent => (limitBy # 0 /\ answered >= limitBy)

\* C9: with the RPC port equal to the engine port, also with --daemon or
\* --logfile, main() ends with the configuration error and no subprocess has
\* been spawned.
PortConflictRefused ==
    args.same_port =>
        /\ spawned = 0
        /\ mainRet \in {"none", "RuntimeError"}

Faulted == last # last' /\ last'.st = "fault"

\* C19: the step that answers a convert or compare with a fault other than
\* the timeout's leaves the supervisor as it was: no signal is sent to the
\* engine, the engine process, intentional_exit and the request counter are
\* unchanged, and the serving thread is back in its loop with the listener
\* and the shutdown flag as before
FaultIsLocal ==
    [][Faulted =>
          /\ UNCHANGED <<libreoffice_process, sent, pending>>
          /\ UNCHANGED <<intentional_exit, number_of_requests, limitBy>>
          /\ UNCHANGED <<shutdown_request, listener, backlog, mainVars>>
          /\ tpc' = "loop"]_vars

\* a fault went out and the next request can be taken
FaultIsLocalWitness ==
    /\ last.st = "fault"
    /\ last.id = 1
    /\ backlog = <<2>>
    /\ tpc = "loop"
    /\ ~shutdown_request
    /\ libreoffice_process = "running"
    /\ sent = {}

\* C25: stop() does not return with the engine alive: it terminates the
\* engine, waits for the grace period and kills an engine that is still there
StopLeavesNoEngine ==
    [][(At("stop", "s_poll") /\ Len(stack') < Len(stack))
          => libreoffice_process' # "running"]_vars

\* C28: when start() fails and main() returns 2, the engine has exited or a
\* terminate has reached it: no engine is left running without a dispatcher
StartupTeardown ==
    (At("main", "start_none") \/ mainRet = "rc2")
        => (libreoffice_process = "exited" \/ pending)

\* the connections numbered from..to, in their order
Waiting(from, to) == [i \in 1..(to - from + 1) |-> from + i - 1]

TimeoutStopsDispatch ==
    TimeoutKill \in sent => (cur = NoCall \/ cur.elapsed)

\* ---- the supervisor in the foreground, left alone by the operator --------
\* a step of the main thread when no signal is delivered
ForegroundStep ==
    \/ StartSpawn
    \/ StartThread
    \/ StartFailed
    \/ StartReturnNone
    \/ StartReturnProcess
    \/ MainWaitReturns
    \/ MainProbe
    \/ StopShutdown
    \/ StopShutdownDone
    \/ StopNoServer
    \/ StopJoin
    \/ StopTerminateExited
    \/ StopSkipRunning

DrainNext ==
    \/ ForegroundStep
    \/ ServeStep
    \/ WorkerStep
    \/ ClientCall
    \/ EngineDies
    \/ EngineTerminated

\* unoserver without --daemon and --logfile, on two different ports
DrainInit == Init /\ ~args.daemon /\ ~args.logfile /\ ~args.same_port

\* the threads are scheduled fairly, and a signalled LibreOffice exits
DrainSpec ==
    /\ DrainInit
    /\ [][DrainNext]_vars
    /\ WF_vars(ForegroundStep)
    /\ WF_vars(ServeStep)
    /\ WF_vars(WorkerStep)
    /\ WF_vars(EngineTerminated)

\* the engine has exited on its own while the dispatcher serves and main()
\* waits for the process
EngineDied ==
    /\ libreoffice_process = "exited"
    /\ sent = {}
    /\ ~intentional_exit
    /\ tpc = "loop"
    /\ At("main", "wait")

\* C29: after the engine died under a serving dispatcher with no shutdown
\* asked for, main() ends (it returns, or the probe of the reaped pid raises)
\* with the dispatcher stopped and the serving thread ended, and 'Looks like
\* LibreOffice died' has been logged unless the request limit asked for the
\* exit in the meantime; the message is logged only while intentional_exit
\* is false
EngineDeathDrains ==
    /\ EngineDied ~> (/\ mainRet \in {"rc0", "rc1", "OSError"}
                      /\ tpc = "done"
                      /\ is_shut_down
                      /\ limitBy = 0 => died_logged)
    /\ [][(died_logged' /\ ~died_logged) => ~intentional_exit]_vars

\* main() returned after the death of the engine was logged
EngineDeathWitness ==
    /\ died_logged
    /\ mainRet = "rc0"
    /\ tpc = "done"
    /\ signals = 0
    /\ answered > 0

\* the main thread and the serving thread are scheduled fairly and a
\* signalled LibreOffice exits, but an engine call may never come back
HungWorkerSpec ==
    /\ Spec
    /\ WF_vars(MainStep)
    /\ WF_vars(ServeStep)
    /\ WF_vars(EngineTerminated)

StopJoinsThread ==
    /\ []((\E i \in 1..Len(stack) : stack[i].fn = "stop") => tpc # "unstarted")
    /\ [][(At("stop", "s_poll") /\ Len(stack') < Len(stack))
             => (tpc = "done" /\ listener = "closed" /\ cur = NoCall)]_vars

\* main()'s stop() has returned after it shut a serving dispatcher down
StopJoinsThreadWitness ==
    /\ At("main", "probe")
    /\ tpc = "done"
    /\ xmlrcp_server
    /\ is_shut_down
    /\ answered > 0

\* the serving thread has ended and the engine has exited: a first teardown
\* has nothing left to do
TornDown == tpc = "done" /\ libreoffice_process = "exited"

\* a step of stop() or of the signal handler's body
TeardownStep ==
    /\ Running
    /\ Top.fn \in {"stop", "handler"}
    /\ stack' # stack
    /\ signals' = signals

\* C32: teardown is idempotent. A stop() or a relay of a signal that runs
\* when the engine has exited leaves the engine as it is; a stop() that runs
\* after the teardown is complete changes nothing but the main thread's own
\* position (it calls shutdown() and terminate() again, to no effect), and it
\* is never blocked: it returns
TeardownIdempotent ==
    /\ [][(TeardownStep /\ libreoffice_process = "exited")
             => UNCHANGED <<libreoffice_process, pending>>]_vars
    /\ [][(TeardownStep /\ TornDown)
             => /\ UNCHANGED <<libreoffice_process, pending>>
                /\ UNCHANGED <<intentional_exit, xmlrcp_server, is_shut_down>>
                /\ UNCHANGED <<serveVars, callVars>>
                /\ UNCHANGED <<args, mainRet, spawned, handlers, died_logged>>]_vars
    /\ []((TornDown /\ At("stop", "s_wait")) => is_shut_down)

\* main()'s stop() has run after the signal handler's stop() had shut the
\* dispatcher down: shutdown() was called on a server that had stopped
TeardownIdempotentWitness ==
    /\ At("main", "probe")
    /\ signals > 0
    /\ TornDown
    /\ is_shut_down
    /\ shutdown_request
    /\ [by |-> "handler", sig |-> "SIGTERM"] \in sent
    /\ StopKill \in sent

\* start() is asleep after Popen, or has not got that far
Settling == Running /\ stack[1].pc \in {"parse", "sleep5"}

\* C33: the serving thread is started by the step that ends the sleep of five
\* seconds, with the engine spawned and the signal handlers registered; the
\* connect loops, which run in that thread, make no attempt before that
StartupOrdering ==
    /\ [](tpc # "unstarted" =>
             (spawned > 0 /\ libreoffice_process # "None" /\ handlers))
    /\ [][(tpc = "unstarted" /\ tpc' # "unstarted") =>
             (At("main", "sleep5") /\ ~Settling')]_vars
    /\ [](Settling => (tpc = "unstarted" /\ attempts = 0))

\* the converter's loop has made an attempt while start() sleeps its two
\* seconds
StartupOrderingWitness ==
    /\ At("main", "sleep2")
    /\ tpc = "conv"
    /\ attempts < ConnectAttempts
    /\ handlers
    /\ libreoffice_process = "running"

\* the handler's engine call has succeeded and the handler goes on to return
\* the result
Succeeds == tpc \in {"c_result", "p_result"} /\ future = "ok" /\ tpc' # tpc

NoTimeoutByDefault ==
    /\ [](args.conversion_timeout = None =>
             /\ TimeoutKill \notin sent
             /\ ~cur.elapsed
             /\ ~last.elapsed
             /\ last.st # "timeout"
             /\ tpc # "c_raise")
    /\ [][(args.conversion_timeout = None /\ answered' # answered) =>
             (future \in {"ok", "err"} /\ cur.id \notin executing)]_vars

\* with no timeout configured the second call is waiting for the engine after
\* the first was answered
NoTimeoutWitness ==
    /\ args.conversion_timeout = None
    /\ answered = 1
    /\ cur.id = 2
    /\ tpc = "c_result"
    /\ future = "pending"
    /\ executing = {2}

\* a signal enters the handler; the request counter reaches stop_after
HandlerEntered == signals' = signals + 1
LimitReached ==
    number_of_requests' # number_of_requests
        /\ number_of_requests' = args.stop_after

\* C36: intentional_exit starts false, becomes true only in the signal
\* handler or when the request counter reaches stop_after, and is never
\* reset; the timeout of a call and a connect loop that runs out leave it as
\* it is
IntentionalExitMonotone ==
    /\ ~intentional_exit
    /\ [][intentional_exit => intentional_exit']_vars
    /\ [][(~intentional_exit /\ intentional_exit') =>
             (HandlerEntered \/ LimitReached)]_vars
    /\ [][((tpc # "c_raise" /\ tpc' = "c_raise")
             \/ (tpc \in Loops /\ tpc' = "done")
             \/ (~cur.elapsed /\ cur'.elapsed)) =>
             UNCHANGED intentional_exit]_vars

\* the flag was set by the first convert, which reached the limit, and is
\* still set after the second one timed out, with no signal delivered
IntentionalExitMonotoneWitness ==
    /\ intentional_exit
    /\ signals = 0
    /\ limitBy = 1
    /\ last = [id |-> 2, kind |-> "convert", elapsed |-> TRUE, st |-> "timeout"]

\* ---- UnoClient.convert / UnoClient.compare -------------------------------
\* an argument is a value or Python's None; "" is a value that tests false
API_VERSION == "3"
ClientRetries == 5
PathValues == {"None", "", "f.pdf", "f.bog"}
DataValues == {"None", "", "bytes"}
TypeValues == {"None", "", "pdf", "bog"}
ApiValues == {"2", "3"}
IsNone(v) == v = "None"
Truthy(v) == v \notin {"None", ""}

\* os.path.splitext(path)[-1].strip(os.path.extsep)
Ext(path) ==
    CASE path = "f.pdf" -> "pdf"
      [] path = "f.bog" -> "bog"
      [] OTHER -> ""

\* UnoClient.__init__: where the client takes the server's files to be
Servers == {"127.0.0.1", "10.0.0.5"}
HostLocations == {"auto", "remote", "local"}
Loopback(server) == server \in {"127.0.0.1", "localhost"}
Remote(server, host_location) ==
    CASE host_location = "auto" -> ~Loopback(server)
      [] host_location = "remote" -> TRUE
      [] OTHER -> FALSE

\* the call ends: an exception leaves convert()/compare(), or it returns
ClientEnds(how) == client' = [client EXCEPT !.pc = "done", !.result = how]

\* a step of the client leaves the server as it is
clientFrame ==
    /\ UNCHANGED <<args, stack, mainRet, spawned, handlers, signals,
                   died_logged, conv, comp, launch>>
    /\ UNCHANGED <<engineVars, flagVars, serveVars, callVars>>

\* client.convert(inpath, indata, outpath, convert_to) or
\* client.compare(oldpath, olddata, newpath, newdata, outpath, filetype) is
\* called on a client whose files are local or remote. a_ is convert's input
\* and compare's new input, b_ is compare's old input
ClientBegin(op) ==
    /\ client.pc = "none"
    /\ \E server \in Servers, host_location \in HostLocations,
          ap \in PathValues, ad \in DataValues,
          bp \in PathValues, bd \in DataValues,
          out \in PathValues, ft \in TypeValues :
          /\ op = "convert" => (bp = "None" /\ bd = "None")
          /\ client' = [NoClient EXCEPT !.pc = "check", !.op = op,
                            !.server = server,
                            !.remote = Remote(server, host_location),
                            !.a_path = ap, !.a_data = ad,
                            !.b_path = bp, !.b_data = bd, !.outpath = out,
                            !.filetype = ft]
    /\ clientFrame

\* variant: the checks let two inputs for one document through
Rejected_NotBoth(c) ==
    IF c.op = "convert"
    THEN \/ IsNone(c.a_path) /\ IsNone(c.a_data)
         \/ IsNone(c.filetype) /\ IsNone(c.outpath)
    ELSE \/ IsNone(c.a_path) /\ IsNone(c.a_data)
         \/ IsNone(c.b_path) /\ IsNone(c.b_data)
         \/ IsNone(c.outpath) /\ IsNone(c.filetype)

\* the checks at the head of convert() and of compare()
Rejected(c) ==
    IF c.op = "convert"
    THEN \/ IsNone(c.a_path) /\ IsNone(c.a_data)
         \/ ~IsNone(c.a_path) /\ ~IsNone(c.a_data)
         \/ IsNone(c.filetype) /\ IsNone(c.outpath)
    ELSE \/ IsNone(c.a_path) /\ IsNone(c.a_data)
         \/ IsNone(c.b_path) /\ IsNone(c.b_data)
         \/ ~IsNone(c.a_path) /\ ~IsNone(c.a_data)
         \/ ~IsNone(c.b_path) /\ ~IsNone(c.b_data)
         \/ IsNone(c.outpath) /\ IsNone(c.filetype)

\* the head of convert()/compare(): raise RuntimeError, or go on with the
\* file type taken from the output path when none was given
ClientValidate ==
    /\ client.pc = "check"
    /\ IF Rejected(client) THEN ClientEnds("RuntimeError")
       ELSE client' = [client EXCEPT
                          !.pc = "prepare",
                          !.filetype = IF IsNone(@) THEN Ext(client.outpath)
                                       ELSE @]
    /\ clientFrame

\* a path that is sent as data: open(path, "rb").read(), unless open() raises
Read(c, readable) ==
    [c EXCEPT !.a_data = IF Truthy(c.a_path) THEN "bytes" ELSE @,
              !.a_path = IF Truthy(c.a_path) THEN "None" ELSE @,
              !.b_data = IF Truthy(c.b_path) THEN "bytes" ELSE @,
              !.b_path = IF Truthy(c.b_path) THEN "None" ELSE @,
              !.pc = IF readable THEN "info" ELSE "done",
              !.result = IF readable THEN @ ELSE "OSError",
              !.retries = ClientRetries]

\* between the checks and the connection: a remote client reads its input
\* files; convert() refuses an output path that is a directory
ClientPrepare ==
    /\ client.pc = "prepare"
    /\ \/ /\ client.remote /\ (Truthy(client.a_path) \/ Truthy(client.b_path))
          /\ \E readable \in BOOLEAN : client' = Read(client, readable)
       \/ /\ client.op = "convert" /\ Truthy(client.outpath)
          /\ ClientEnds("ValueError")
       \/ /\ ~(client.remote /\ (Truthy(client.a_path) \/ Truthy(client.b_path)))
          /\ client' = [client EXCEPT !.pc = "info", !.retries = ClientRetries]
    /\ clientFrame

\* convert() checks the filter names against what info() returned
AfterConnect(c) == IF c.op = "convert" THEN "filters" ELSE "call"

\* variant: after the last ConnectionError the loop ends and _connect()
\* returns nothing
ClientConnect_FallsThrough ==
    /\ client.pc = "info"
    /\ client.retries > 0
    /\ \/ \E api \in ApiValues :
             client' = [client EXCEPT
                           !.infos = @ + 1,
                           !.api = api,
                           !.pc = IF api = API_VERSION
                                  THEN AfterConnect(client) ELSE "done",
                           !.result = IF api = API_VERSION THEN @
                                      ELSE "RuntimeError"]
       \/ client' = [client EXCEPT
                        !.infos = @ + 1,
                        !.retries = @ - 1,
                        !.pc = IF client.retries - 1 > 0 THEN "info"
                               ELSE AfterConnect(client)]
       \/ client' = [client EXCEPT !.infos = @ + 1, !.pc = "done",
                                   !.result = "Error"]
    /\ clientFrame

\* variant: the call goes on when the server's API version differs
ClientConnect_AnyVersion ==
    /\ client.pc = "info"
    /\ client.retries > 0
    /\ \E api \in ApiValues :
          client' = [client EXCEPT !.infos = @ + 1, !.api = api,
                                   !.pc = AfterConnect(client)]
    /\ clientFrame

\* one pass of the loop of _connect(): proxy.info() returns the server's API
\* version, or raises ConnectionError, or raises something else
ClientConnect ==
    /\ client.pc = "info"
    /\ client.retries > 0
    /\ \/ \E api \in ApiValues :
             client' = [client EXCEPT
                           !.infos = @ + 1,
                           !.api = api,
                           !.pc = IF api = API_VERSION
                                  THEN AfterConnect(client) ELSE "done",
                           !.result = IF api = API_VERSION THEN @
                                      ELSE "RuntimeError"]
       \/ client' = [client EXCEPT
                        !.infos = @ + 1,
                        !.retries = @ - 1,
                        !.pc = IF client.retries - 1 > 0 THEN "info" ELSE "done",
                        !.result = IF client.retries - 1 > 0 THEN @
                                   ELSE "ConnectionError"]
       \/ client' = [client EXCEPT !.infos = @ + 1, !.pc = "done",
                                   !.result = "Error"]
    /\ clientFrame

\* filtername, infiltername as given to convert(); info() lists "known"
FilterValues == {"None", "", "known", "unknown"}
Listed(name) == name = "known"

\* variant: only the import filter name is checked
Unlisted_ImportOnly(infiltername, filtername) ==
    Truthy(infiltername) /\ ~Listed(infiltername)

\* if infiltername and infiltername not in info["import_filters"], and the
\* same for filtername and info["export_filters"]
Unlisted(infiltername, filtername) ==
    \/ Truthy(infiltername) /\ ~Listed(infiltername)
    \/ Truthy(filtername) /\ ~Listed(filtername)

\* convert(): RuntimeError for a filter name that info() does not list
ClientCheckFilters ==
    /\ client.pc = "filters"
    /\ \E infiltername \in FilterValues, filtername \in FilterValues :
          client' = [client EXCEPT
              !.infiltername = infiltername,
              !.filtername = filtername,
              !.pc = IF Unlisted(infiltername, filtername)
                     THEN "done" ELSE "call",
              !.result = IF Unlisted(infiltername, filtername)
                         THEN "RuntimeError" ELSE @]
    /\ clientFrame

\* the output path in the request: convert() sends None from a remote
\* client, compare() sends None to a server that is not on the loopback
SentOutpath(c) ==
    IF c.op = "convert"
    THEN IF c.remote THEN "None" ELSE c.outpath
    ELSE IF Loopback(c.server) THEN c.outpath ELSE "None"

\* what is sent with proxy.convert(...) / proxy.compare(...)
Message(c) ==
    [a_path |-> c.a_path, b_path |-> c.b_path, outpath |-> SentOutpath(c),
     filtername |-> c.filtername, infiltername |-> c.infiltername]

\* the server's answer: the bytes when no output path was sent, else None
\* after it wrote the file itself
Answer(m) == IF IsNone(m.outpath) THEN "bytes" ELSE "None"

\* proxy.convert(...) / proxy.compare(...): a fault, or the result comes
\* back: bytes are written to outpath if there is one, else returned
ClientProxyCall ==
    /\ client.pc = "call"
    /\ LET m == Message(client)
           c == [client EXCEPT !.calls = @ + 1, !.pc = "done", !.msg = m]
       IN \/ client' = [c EXCEPT !.result = "Fault"]
          \/ client' =
               IF Answer(m) = "bytes" /\ Truthy(client.outpath)
                   THEN [c EXCEPT !.wrote = TRUE, !.result = "None"]
               ELSE [c EXCEPT !.result = Answer(m)]
    /\ clientFrame

ClientNext ==
    \/ \E op \in Kinds : ClientBegin(op)
    \/ ClientValidate
    \/ ClientPrepare
    \/ ClientConnect
    \/ ClientCheckFilters
    \/ ClientProxyCall

\* the server's command line plays no part in a client call
DefaultArgs ==
    [daemon |-> FALSE, logfile |-> FALSE, same_port |-> FALSE,
     conversion_timeout |-> None, stop_after |-> None]

ClientInit == Init /\ args = DefaultArgs

ClientSpec == ClientInit /\ [][ClientNext]_vars

\* C14: convert/compare is called on the proxy only after info() returned the
\* client's own API version; a different version ends the call with a
\* RuntimeError at once: no further info(), no convert/compare.
VersionChecked ==
    /\ client.calls > 0 => client.api = API_VERSION
    /\ client.api \notin {"None", API_VERSION} =>
          /\ client.pc = "done"
          /\ client.result = "RuntimeError"
          /\ client.calls = 0

\* the server answered the third info() with another API version
VersionCheckedWitness ==
    /\ client.api = "2"
    /\ client.infos = 3
    /\ client.result = "RuntimeError"

\* exactly one of a document's path and data is given
OneOf(path, data) == IsNone(path) # IsNone(data)

\* C16: convert() and compare() raise RuntimeError before any request goes to
\* the server when an input has neither or both of path and data, or when
\* neither an output path nor a file type is given; compare() applies the
\* rule to its old and to its new input.
ClientRejects ==
    (/\ client.pc \notin {"none", "check"}
     /\ \/ ~OneOf(client.a_path, client.a_data)
        \/ client.op = "compare" /\ ~OneOf(client.b_path, client.b_data)
        \/ IsNone(client.outpath) /\ IsNone(client.filetype))
    => /\ client.pc = "done"
       /\ client.result = "RuntimeError"
       /\ client.infos = 0
       /\ client.calls = 0

\* compare() has refused a call whose new input is fine and whose old input
\* is given both as a path and as data
ClientRejectsWitness ==
    /\ client.op = "compare"
    /\ client.pc = "done"
    /\ OneOf(client.a_path, client.a_data)
    /\ ~IsNone(client.b_path) /\ ~IsNone(client.b_data)
    /\ ~IsNone(client.outpath)
    /\ client.result = "RuntimeError"

\* C21: every request of a remote client carries no path of a file: the
\* input paths have been replaced by the files' bytes, the output path is
\* sent as None, and the bytes that come back are written to the local
\* outpath
RemoteStaging ==
    (client.remote /\ client.calls > 0) =>
        /\ ~Truthy(client.msg.a_path)
        /\ ~Truthy(client.msg.b_path)
        /\ ~Truthy(client.msg.outpath)
        /\ (client.result \in {"bytes", "None"} /\ Truthy(client.outpath))
              => client.wrote

\* C23: convert() with an import or export filter name that info() does not
\* list raises RuntimeError and sends no convert request
UnknownFilterRefused ==
    (\/ Truthy(client.infiltername) /\ ~Listed(client.infiltername)
     \/ Truthy(client.filtername) /\ ~Listed(client.filtername))
    => /\ client.pc = "done"
       /\ client.result = "RuntimeError"
       /\ client.calls = 0

\* info() was answered, the import filter is listed, the export filter is not
UnknownFilterWitness ==
    /\ client.op = "convert"
    /\ client.infos > 0
    /\ client.api = API_VERSION
    /\ client.infiltername = "known"
    /\ client.filtername = "unknown"
    /\ client.result = "RuntimeError"
    /\ client.calls = 0

\* C37: _connect() calls info() at most 5 times. Each pass of its loop makes
\* one call; a ConnectionError before the fifth call leads to another pass,
\* the fifth one is re-raised; the loop is left with the info data of a
\* server of the client's API version or with an exception, never with
\* nothing
ConnectRetry ==
    /\ [](client.infos <= 5)
    /\ [](client.pc = "info" =>
             (client.retries > 0 /\ client.infos = ClientRetries - client.retries))
    /\ [](client.result = "ConnectionError" =>
             /\ client.infos = 5
             /\ client.retries = 0
             /\ client.pc = "done"
             /\ client.calls = 0)
    /\ [](client.pc \in {"filters", "call"} => client.api = API_VERSION)
    /\ [][(client.pc = "info" /\ client' # client) =>
             /\ client'.infos = client.infos + 1
             /\ \/ client'.pc = "info" /\ client'.retries = client.retries - 1
                \/ client'.pc = AfterConnect(client) /\ client'.api = API_VERSION
                \/ client'.pc = "done" /\ client'.result \in
                      {"ConnectionError", "RuntimeError", "Error"}]_vars

\* the fifth info() raised ConnectionError as well, and the call ended with it
ConnectRetryWitness ==
    /\ client.infos = 5
    /\ client.retries = 0
    /\ client.pc = "done"
    /\ client.result = "ConnectionError"

\* ---- UnoConverter --------------------------------------------------------
\* a step of the converter leaves the supervisor and the client as they are
converterFrame ==
    /\ UNCHANGED <<args, stack, mainRet, spawned, handlers, signals,
                   died_logged, client, comp, launch>>
    /\ UNCHANGED <<engineVars, flagVars, serveVars, callVars>>

\* UnoConverter.__init__: the bridge to the engine; no filter list cached
ConverterNew ==
    /\ conv.pc = "none"
    /\ conv' = [NoConverter EXCEPT !.pc = "idle", !.bridge = "up"]
    /\ converterFrame

\* the engine goes away under the converter, and its documents with it
BridgeBreaks ==
    /\ conv.pc # "none"
    /\ conv.bridge = "up"
    /\ conv' = [conv EXCEPT !.bridge = "down", !.docs = {}]
    /\ converterFrame

\* what the engine does with createSubSetEnumerationByQuery and the loop over
\* its elements: the whole list, a part of it and then an exception, or an
\* exception from the query itself
QueryOutcomes(c) ==
    IF c.bridge = "up" THEN {"full", "partial", "raised"} ELSE {"raised"}

\* variant: the list is asked from the engine at every call
Fetch_NoCache(c, dir, out) ==
    IF out = "raised" THEN [c EXCEPT !.calls = @ \cup {"filters"}]
    ELSE [c EXCEPT ![dir] = out, !.queried[dir] = @ + 1,
                   !.calls = @ \cup {"filters"}]

\* get_available_import_filters / get_available_export_filters: the cached
\* list if there is one, else the engine is asked and the list is kept
Fetch(c, dir, out) ==
    IF c[dir] # "None" THEN c
    ELSE IF out = "raised" THEN [c EXCEPT !.calls = @ \cup {"filters"}]
    ELSE [c EXCEPT ![dir] = out, !.queried[dir] = @ + 1,
                   !.calls = @ \cup {"filters"}]

\* the getter returned a list (it did not raise)
Fetched(c, dir, out) == c[dir] # "None" \/ out = "full"

\* the info() function of the server: both lists, as cached or as fetched now
ConverterInfo ==
    /\ conv.pc = "idle"
    /\ conv.infos < MaxInfos
    /\ \E o1 \in QueryOutcomes(conv) :
          LET c1 == Fetch(conv, "imports", o1) IN
          IF ~Fetched(conv, "imports", o1) THEN conv' = c1
          ELSE \E o2 \in QueryOutcomes(c1) :
                  LET c2 == Fetch(c1, "exports", o2) IN
                  IF ~Fetched(c1, "exports", o2) THEN conv' = c2
                  ELSE conv' = [c2 EXCEPT
                          !.infos = @ + 1,
                          !.first = IF @ = "none"
                                    THEN <<c2.imports, c2.exports>> ELSE @,
                          !.last = <<c2.imports, c2.exports>>]
    /\ converterFrame

\* ---- UnoConverter.convert ------------------------------------------------
InPaths == {"None", "", "f.odt", "gone.odt"}
Exists(path) == path = "f.odt"              \* Path(inpath).exists()
\* filtername, infiltername: arguments read at one place each, drawn there
FilterArgs == {"None", "known", "unknown"}

\* the type the engine's type detection gives for an extension
KnownType(ext) == ext = "pdf"

\* an engine call answers only over a live bridge, and may raise even then
CallOutcomes(c) == IF c.bridge = "up" THEN {"ok", "raised"} ELSE {"raised"}

\* convert() returns or raises.
\* docs are the documents open in the engine: "own" is the one this call has
\* loaded and is inside its try block with, which 'finally: document.close(True)'
\* closes; "stray" are documents that earlier calls have left open
ConvertEnds(c, how) ==
    [c EXCEPT !.pc = "c_ended", !.result = how,
              !.between = @ \/ c.infos = 1,
              !.docs = @ \ {"own"}]

\* the result or the exception has gone to the caller and the call's frame
\* is gone: the converter is free for the next call
ConvertDone ==
    /\ conv.pc = "c_ended"
    /\ conv' = [conv EXCEPT
           !.pc = "idle",
           !.inpath = "None", !.indata = "None", !.outpath = "None",
           !.convert_to = "None",
           !.calls = {}, !.result = "none", !.written = FALSE]
    /\ converterFrame

\* the convert handler hands its arguments to UnoConverter.convert as they
\* came
ConvertBegin ==
    /\ conv.pc = "idle"
    /\ \E inpath \in InPaths, indata \in DataValues, outpath \in PathValues,
          convert_to \in TypeValues :
          conv' = [conv EXCEPT
              !.pc = "c_infilter",
              !.inpath = inpath, !.indata = indata, !.outpath = outpath,
              !.convert_to = convert_to,
              !.calls = {}, !.result = "none", !.written = FALSE]
    /\ converterFrame

\* if infiltername: the name is looked up in the import filters
ConvertInfilter ==
    /\ conv.pc = "c_infilter"
    /\ \E infiltername \in FilterArgs :
          IF ~Truthy(infiltername)
          THEN conv' = [conv EXCEPT !.pc = "c_input"]
          ELSE \E out \in QueryOutcomes(conv) :
                 LET c == Fetch(conv, "imports", out) IN
                 conv' = IF ~Fetched(conv, "imports", out)
                             THEN ConvertEnds(c, "UnoException")
                         ELSE IF infiltername = "unknown"
                             THEN ConvertEnds(c, "ValueError")
                         ELSE [c EXCEPT !.pc = "c_input"]
    /\ converterFrame

\* if inpath: ... elif indata: ...; with neither, import_path is unbound at
\* the load
ConvertInput ==
    /\ conv.pc = "c_input"
    /\ IF Truthy(conv.inpath)
       THEN conv' = IF Exists(conv.inpath)
                    THEN [conv EXCEPT !.pc = "c_load"]
                    ELSE ConvertEnds(conv, "RuntimeError")
       ELSE IF Truthy(conv.indata)
       THEN \E out \in CallOutcomes(conv) :
              LET c == [conv EXCEPT !.calls = @ \cup {"stream"}] IN
              conv' = IF out = "ok" THEN [c EXCEPT !.pc = "c_load"]
                      ELSE ConvertEnds(c, "UnoException")
       ELSE conv' = ConvertEnds(conv, "UnboundLocalError")
    /\ converterFrame

\* convert() is left by an exception between the load and its try block: the
\* document stays open
ConvertLeaves(c, how) ==
    [c EXCEPT !.pc = "c_ended", !.result = how,
              !.between = @ \/ c.infos = 1,
              !.docs = @ \cup {"stray"}]

\* loadComponentFromURL, which raises, returns None or returns the document;
\* then, if update_index, document.refresh() and the update of each index,
\* of which only AttributeError is caught; then the try block is entered
ConvertLoad ==
    /\ conv.pc = "c_load"
    /\ LET c == [conv EXCEPT !.calls = @ \cup {"load"}] IN
       \E out \in CallOutcomes(conv) \cup {"none"}, update_index \in BOOLEAN,
          refresh \in CallOutcomes(conv) :
          conv' = CASE out = "none" -> ConvertEnds(c, "RuntimeError")
                    [] out = "raised" -> ConvertEnds(c, "UnoException")
                    [] update_index /\ refresh = "raised" ->
                          ConvertLeaves(c, "UnoException")
                    [] OTHER -> [c EXCEPT !.pc = "c_type",
                                          !.docs = @ \cup {"own"}]
    /\ converterFrame

\* the URL whose type is asked: the dummy name made of convert_to, else the
\* export path, which is private:stream unless outpath is truthy
ExportExt(c) ==
    IF Truthy(c.convert_to) THEN c.convert_to
    ELSE IF Truthy(c.outpath) THEN Ext(c.outpath)
    ELSE ""

\* queryTypeByURL; if not export_type: the fault, whose message needs the
\* extension of outpath when convert_to is not given
ConvertType ==
    /\ conv.pc = "c_type"
    /\ LET c == [conv EXCEPT !.calls = @ \cup {"type"}] IN
       \E out \in CallOutcomes(conv) :
          conv' = IF out = "raised" THEN ConvertEnds(c, "UnoException")
                  ELSE IF KnownType(ExportExt(conv))
                      THEN [c EXCEPT !.pc = "c_filter"]
                  ELSE IF ~Truthy(conv.convert_to) /\ IsNone(conv.outpath)
                      THEN ConvertEnds(c, "TypeError")
                  ELSE ConvertEnds(c, "Unknown export file type")
    /\ converterFrame

\* the export filter: the given name must be in the export filters, else
\* find_filter searches them; either way the export filters are fetched
ConvertFilter ==
    /\ conv.pc = "c_filter"
    /\ \E filtername \in FilterArgs, out \in QueryOutcomes(conv),
          found \in BOOLEAN :
          LET c == Fetch(conv, "exports", out) IN
          conv' = IF ~Fetched(conv, "exports", out)
                      THEN ConvertEnds(c, "UnoException")
                  ELSE IF filtername = "unknown"
                      THEN ConvertEnds(c, "RuntimeError")
                  ELSE IF IsNone(filtername) /\ ~found
                      THEN ConvertEnds(c, "RuntimeError")
                  ELSE [c EXCEPT !.pc = "c_store"]
    /\ converterFrame

\* storeToURL to the export path, with an OutputStream if outpath is None;
\* then the bytes of the stream if outpath is None, else None
ConvertStore ==
    /\ conv.pc = "c_store"
    /\ LET c == [conv EXCEPT !.calls = @ \cup {"store"}] IN
       \E out \in CallOutcomes(conv) :
          conv' = IF out = "raised" THEN ConvertEnds(c, "UnoException")
                  ELSE IF IsNone(conv.outpath) THEN ConvertEnds(c, "bytes")
                  ELSE ConvertEnds([c EXCEPT !.written = Truthy(conv.outpath)],
                                   "None")
    /\ converterFrame

ConverterNext ==
    \/ ConverterNew
    \/ BridgeBreaks
    \/ ConverterInfo
    \/ ConvertBegin
    \/ ConvertInfilter
    \/ ConvertInput
    \/ ConvertLoad
    \/ ConvertType
    \/ ConvertFilter
    \/ ConvertStore
    \/ ConvertDone

ConverterInit == Init /\ args = DefaultArgs
ConverterSpec == ConverterInit /\ [][ConverterNext]_vars

\* a convert call that has returned a value
Returned == conv.result \in {"bytes", "None"}

\* a convert call is under way or has ended
Requested == conv.pc \in {"c_infilter", "c_input", "c_load", "c_type",
                          "c_filter", "c_store"} \/ conv.result # "none"

\* C15: a convert request that does not give exactly one of inpath and indata,
\* or does not give exactly one of outpath and convert_to, is refused with a
\* fault before any call to the engine is made
ServerValidates ==
    (Requested /\ (~OneOf(conv.inpath, conv.indata)
                   \/ ~OneOf(conv.outpath, conv.convert_to)))
        => (conv.calls = {} /\ ~Returned)

\* C17: a convert that succeeds returns the bytes and writes no file when
\* outpath is None, and returns None with the file written at outpath in
\* every other case, the empty outpath included
ResultShape ==
    Returned =>
        IF IsNone(conv.outpath)
        THEN conv.result = "bytes" /\ ~conv.written
        ELSE conv.result = "None" /\ conv.written

\* C18: a convert whose output path has an extension the engine knows no type
\* for, and that names no other target format, ends with the fault 'Unknown
\* export file type' and makes no call to the engine
UnknownExtensionFault ==
    (Requested /\ conv.bridge = "up"
       /\ OneOf(conv.inpath, conv.indata) /\ Exists(conv.inpath)
       /\ Truthy(conv.outpath) /\ ~KnownType(Ext(conv.outpath))
       /\ conv.convert_to \in {"None", Ext(conv.outpath)})
        => /\ conv.calls = {}
           /\ conv.result \in {"none", "Unknown export file type"}

NoLeakedDocuments == conv.pc \in {"c_ended", "idle"} => conv.docs = {}

\* ---- UnoComparer.compare -------------------------------------------------
\* a step of the comparer leaves the supervisor, the client and the
\* converter as they are
comparerFrame ==
    /\ UNCHANGED <<args, stack, mainRet, spawned, handlers, signals,
                   died_logged, client, conv, launch>>
    /\ UNCHANGED <<engineVars, flagVars, serveVars, callVars>>

DocPaths == {"None", "f.odt"}
DocData == {"None", "bytes"}
OutPaths == {"None", "f.pdf"}
FileTypes == {"None", "pdf", "bog"}

\* def compare(self, inpath=None, indata=None, inOrgpath=None, outpath=None,
\* convert_to=None)
Parameters == <<"inpath", "indata", "inOrgpath", "outpath", "convert_to">>

\* the compare function of the server submits self.comp.compare with its six
\* parameters, in their order, as positional arguments
CompareSubmit ==
    /\ comp.pc = "none"
    /\ \E oldpath \in DocPaths, olddata \in DocData, newpath \in DocPaths,
          newdata \in DocData, outpath \in OutPaths, filetype \in FileTypes :
          comp' = [comp EXCEPT
              !.pc = "call",
              !.given = <<oldpath, olddata, newpath, newdata, outpath,
                          filetype>>]
    /\ comparerFrame

\* main() of the comparer calls compare with inpath or indata, inOrgpath,
\* outpath and convert_to by keyword
ComparerMain ==
    /\ comp.pc = "none"
    /\ \E stdin \in BOOLEAN, inOrgpath \in DocPaths \ {"None"},
          outpath \in OutPaths, convert_to \in FileTypes :
          comp' = [comp EXCEPT
              !.pc = "call",
              !.given = <<IF stdin THEN "None" ELSE "f.odt",
                          IF stdin THEN "bytes" ELSE "None",
                          inOrgpath, outpath, convert_to>>]
    /\ comparerFrame

\* the call binds the arguments to the parameters by position; more
\* arguments than parameters is a TypeError
Bind(c) ==
    IF Len(c.given) > Len(Parameters)
    THEN [c EXCEPT !.pc = "done", !.result = "TypeError"]
    ELSE [c EXCEPT !.pc = "check",
                   !.inpath = c.given[1], !.indata = c.given[2],
                   !.inOrgpath = c.given[3], !.outpath = c.given[4],
                   !.convert_to = c.given[5]]

CompareCall ==
    /\ comp.pc = "call"
    /\ comp' = Bind(comp)
    /\ comparerFrame

\* compare() ends
CompareEnds(c, how) == [c EXCEPT !.pc = "done", !.result = how]

\* the checks at the head of compare()
CompareCheck ==
    /\ comp.pc = "check"
    /\ comp' =
         IF \/ IsNone(comp.inpath) /\ IsNone(comp.indata)
            \/ ~IsNone(comp.inpath) /\ ~IsNone(comp.indata)
            \/ IsNone(comp.inOrgpath)
            \/ IsNone(comp.outpath) /\ IsNone(comp.convert_to)
         THEN CompareEnds(comp, "RuntimeError")
         ELSE [comp EXCEPT !.pc = "load"]
    /\ comparerFrame

\* the document is loaded from the path or from the stream
CompareLoad ==
    /\ comp.pc = "load"
    /\ LET c == [comp EXCEPT !.calls = @ \cup {"load"}] IN
       \E out \in {"ok", "raised"} :
          comp' = IF out = "ok" THEN [c EXCEPT !.pc = "compare"]
                  ELSE CompareEnds(c, "UnoException")
    /\ comparerFrame

\* the two types are found and checked by is_comparable; the engine compares
CompareDocuments ==
    /\ comp.pc = "compare"
    /\ LET c == [comp EXCEPT !.calls = @ \cup {"type", "filters", "dispatch"}]
       IN \E comparable \in BOOLEAN :
             comp' = IF comparable THEN [c EXCEPT !.pc = "export"]
                     ELSE CompareEnds(c, "RuntimeError")
    /\ comparerFrame

\* the export type, the export filter, storeToURL, and what compare returns
CompareExport ==
    /\ comp.pc = "export"
    /\ LET ext == IF Truthy(comp.convert_to) THEN comp.convert_to
                  ELSE Ext(comp.outpath)
           c == [comp EXCEPT !.calls = @ \cup {"type", "filters", "store"}]
       IN \E out \in {"ok", "raised"}, found \in BOOLEAN :
             comp' = IF ~KnownType(ext)
                         THEN CompareEnds(c, "Unknown export file type")
                     ELSE IF ~found THEN CompareEnds(c, "RuntimeError")
                     ELSE IF out = "raised"
                         THEN CompareEnds(c, "UnoException")
                     ELSE IF IsNone(comp.outpath)
                         THEN CompareEnds(c, "bytes")
                     ELSE CompareEnds(c, "None")
    /\ comparerFrame

ComparerNext ==
    \/ CompareSubmit
    \/ ComparerMain
    \/ CompareCall
    \/ CompareCheck
    \/ CompareLoad
    \/ CompareDocuments
    \/ CompareExport

ComparerInit == Init /\ args = DefaultArgs
ComparerSpec == ComparerInit /\ [][ComparerNext]_vars

\* the call came from the compare function of the server
ByRequest == Len(comp.given) = 6

\* C22: a compare request with exactly one of oldpath and olddata, exactly
\* one of newpath and newdata, and an outpath or a filetype does not end in a
\* fault of the call itself: the comparer gets each of the six values in the
\* parameter of its meaning and, unless the engine or the documents fail it,
\* returns the bytes if outpath is None and None otherwise
CompareDelivers ==
    (/\ ByRequest
     /\ comp.pc \notin {"none", "call"}
     /\ OneOf(comp.given[1], comp.given[2])
     /\ OneOf(comp.given[3], comp.given[4])
     /\ ~(IsNone(comp.given[5]) /\ IsNone(comp.given[6])))
    => /\ comp.result # "TypeError"
       /\ comp.outpath = comp.given[5]
       /\ comp.convert_to = comp.given[6]
       /\ comp.result \in {"bytes", "None"}
             => (comp.result = "bytes" <=> IsNone(comp.given[5]))

\* ---- the connect loops, with their attempts counted ----------------------
\* a connection attempt of the loop: it connects, or fails in one of two ways
Tried(loop, how) ==
    connects' = [connects EXCEPT ![loop][how] = connects[loop][how] + 1]

ConnectNext ==
    \/ StartSpawn
    \/ StartThread
    \/ ServeBind
    \/ \E loop \in Loops : Connected(loop) /\ Tried(loop, "connected")
    \/ \E loop \in Loops :
          ConnectFails(loop, TRUE) /\ Tried(loop, "refused")
    \/ \E loop \in Loops :
          ConnectFails(loop, FALSE) /\ Tried(loop, "other")
    \/ \E loop \in Loops : ConnectExhausted(loop) /\ UNCHANGED connects

ConnectSpec == Init /\ [][ConnectNext]_vars

\* ---- the engine's command line --------------------------------------------
Interfaces == {"127.0.0.1", "::"}
UnoInterfaces == {"127.0.0.1", "::1"}
Ports == {"2003", "2203"}
UnoPorts == {"2002", "2202"}

\* unoserver --interface I --port P --uno-interface U --uno-port Q
LaunchInit ==
    /\ Boot
    /\ args = DefaultArgs
    /\ \E i \in Interfaces, p \in Ports, u \in UnoInterfaces, q \in UnoPorts :
          launch = [DefaultLaunch EXCEPT !.interface = i, !.port = p,
                                         !.uno_interface = u, !.uno_port = q]

LaunchSpec == LaunchInit /\ [][ConnectNext]_vars

\* C24: start() spawns one engine process, with --headless among its fixed
\* flags, and tells it to accept on uno_interface and uno_port; the
\* interface and the port of the XML-RPC server are not in the command
EngineLaunch ==
    /\ spawned <= 1
    /\ libreoffice_process # "None" =>
          /\ spawned = 1
          /\ launch.cmd.executable = "libreoffice"
          /\ launch.cmd.flags = EngineFlags
          /\ "--headless" \in launch.cmd.flags
          /\ launch.cmd.accept = [host |-> launch.uno_interface,
                                  port |-> launch.uno_port]
    /\ libreoffice_process = "None" => launch.cmd = NoCommand

\* the XML-RPC server on all IPv6 interfaces, the engine on the loopback
EngineLaunchWitness ==
    /\ libreoffice_process = "running"
    /\ launch.interface = "::"
    /\ launch.port = "2203"
    /\ launch.cmd.accept = [host |-> "127.0.0.1", port |-> "2202"]


\* connection attempts made by a loop so far
Tries(loop) ==
    connects[loop].refused + connects[loop].other + connects[loop].connected

\* C12: a connect loop starts with 20 attempts and has, while it runs, 20
\* less 1 for each "Connection refused" failure and less 4 for each other
\* failure; it makes no attempt once that is <= 0, so it makes at most 20
\* attempts, and at most 5 when none of its failures is a refusal.
ConnectAccounting ==
    \A loop \in Loops :
        /\ tpc = loop =>
              attempts = 20 - connects[loop].refused - 4 * connects[loop].other
        /\ connects[loop].connected = 1 =>
              20 - connects[loop].refused - 4 * connects[loop].other > 0
        /\ 20 - connects[loop].refused - 4 * connects[loop].other > -4
        /\ Tries(loop) <= 20
        /\ connects[loop].refused = 0 => Tries(loop) <= 5

\* the converter connected at its 20th attempt, and the comparer loop ran out
\* after five failures that were not refusals
ConnectAccountingWitness ==
    /\ connects["conv"] = [refused |-> 19, other |-> 0, connected |-> 1]
    /\ connects["comp"] = [refused |-> 0, other |-> 5, connected |-> 0]
    /\ tpc = "done"

ExhaustedKill == [by |-> "exhausted", sig |-> "SIGTERM"]

\* C13: when a connect loop has used up its attempts, terminate() is called on
\* the engine process and the serving thread ends: xmlrcp_server stays unset,
\* no call is dispatched or answered, and the listener is closed.
ExhaustionStops ==
    /\ (tpc \in Loops /\ attempts <= 0) =>
          (~xmlrcp_server /\ answered = 0 /\ cur = NoCall /\ executing = {})
    /\ ExhaustedKill \in sent =>
          /\ tpc = "done"
          /\ listener = "closed"
          /\ backlog = <<>>
          /\ ~xmlrcp_server
          /\ answered = 0 /\ cur = NoCall /\ executing = {}
    /\ (tpc = "done" /\ ~xmlrcp_server /\ issued > 0) => ExhaustedKill \in sent

\* a loop ran out while a client was waiting, and the engine process has gone
ExhaustionWitness ==
    /\ ExhaustedKill \in sent
    /\ issued > 0
    /\ libreoffice_process = "exited"
    /\ ~Running

\* the handler of a signal is running and start() has returned: main() is in
\* process.wait() or in the stop() that follows it
LateSignal ==
    /\ Len(stack) >= 2
    /\ stack[1].pc \in {"wait", "probe"}
    /\ \E i \in 2..Len(stack) : stack[i].fn = "handler"

\* C11: a signal delivered after start() has returned leads to main()
\* returning, under fair scheduling of the threads.
ShutdownLiveness == LateSignal ~> ~Running

====
